---- MODULE Spec2Model ----
(***************************************************************************)
(* Model of palireader (main.go): the content transformer                  *)
(* processHTMContent / makeWordsClickable / processTextSegment /           *)
(* processWords, and the request handler handleRead.                       *)
(*                                                                         *)
(* A Go string is modelled as a sequence of bytes.  A byte is a token: an  *)
(* ASCII byte is the one-character string of its character ("a", "<"),     *)
(* the byte 0x00 is "NUL", and a byte >= 0x80 is its two hex digits        *)
(* ("E2").  A rune is named by its character when it is ASCII and by       *)
(* "U+xxxx" otherwise.  Output is a sequence of chunks whose concatenation *)
(* is the Go output string: a chunk is a byte copied from the input, or a  *)
(* literal the program writes as a whole (an entity such as "&lt;", a      *)
(* percent escape such as "%27", a piece of the anchor or span wrapper).   *)
(***************************************************************************)
EXTENDS Integers, Sequences, FiniteSets, TLC

\* one call of processHTMContent
VARIABLES content, pc, bodyContent, result

\* concurrent request handlers, each in processHTMContent on its own document
VARIABLES hpc, hcontent, hbody, hmatches, hk, hlastEnd, builders, hout

\* one request to handleRead
VARIABLES rpc, urlPath, fsOps, status

tvars == <<content, pc, bodyContent, result>>
hvars == <<hpc, hcontent, hbody, hmatches, hk, hlastEnd, builders, hout>>
rvars == <<rpc, urlPath, fsOps, status>>
vars == <<tvars, hvars, rvars>>

----------------------------------------------------------------------------
(* Bounds of the input sets *)

MaxMarkupLen == 4
MaxWordLen == 4
MaxChunks == 4
NumHandlers == 2
MaxSegments == 3

----------------------------------------------------------------------------
(* Generic sequence helpers *)

RECURSIVE Flatten(_)
Flatten(ss) == IF ss = <<>> THEN <<>> ELSE Head(ss) \o Flatten(Tail(ss))

IsPrefix(p, s) == Len(p) <= Len(s) /\ SubSeq(s, 1, Len(p)) = p

\* Go's s[lo:hi] on 0-based offsets, for 0 <= lo <= hi <= len(s)
Slice(s, lo, hi) == SubSeq(s, lo + 1, hi)

SetMin(S) == CHOOSE x \in S : \A y \in S : x <= y
SetMax(S) == CHOOSE x \in S : \A y \in S : x >= y

RECURSIVE SeqsUpTo(_, _)
SeqsUpTo(S, n) ==
  IF n = 0 THEN {<<>>}
  ELSE LET shorter == SeqsUpTo(S, n - 1)
       IN shorter \cup {Append(s, x) : s \in {t \in shorter : Len(t) = n - 1}, x \in S}

----------------------------------------------------------------------------
(* UTF-8 and the unicode package *)

MultiByteRunes == {"U+2019", "U+0304", "U+0130", "U+FFFD"}

\* utf8.EncodeRune
EncodeRune(r) ==
  CASE r = "U+2019" -> <<"E2", "80", "99">>
    [] r = "U+0304" -> <<"CC", "84">>
    [] r = "U+0130" -> <<"C4", "B0">>
    [] r = "U+FFFD" -> <<"EF", "BF", "BD">>
    [] OTHER -> <<r>>

HighBytes == {"E2", "80", "99", "CC", "84", "C4", "B0", "EF", "BF", "BD"}

\* utf8.DecodeRuneInString on a non-empty string: an undecodable byte is
\* RuneError (U+FFFD) of width 1
DecodeRune(s) ==
  IF \E r \in MultiByteRunes : IsPrefix(EncodeRune(r), s)
  THEN LET r == CHOOSE q \in MultiByteRunes : IsPrefix(EncodeRune(q), s)
       IN [r |-> r, w |-> Len(EncodeRune(r))]
  ELSE IF s[1] \in HighBytes THEN [r |-> "U+FFFD", w |-> 1]
  ELSE [r |-> s[1], w |-> 1]

\* []rune(s)
RECURSIVE Runes(_)
Runes(s) ==
  IF s = <<>> THEN <<>>
  ELSE LET d == DecodeRune(s) IN <<d.r>> \o Runes(SubSeq(s, d.w + 1, Len(s)))

\* string(runes)
RECURSIVE StringOf(_)
StringOf(rs) == IF rs = <<>> THEN <<>> ELSE EncodeRune(Head(rs)) \o StringOf(Tail(rs))

UpperAscii == <<"A", "B", "C", "D", "E", "F", "G", "H", "I", "J", "K", "L", "M",
                "N", "O", "P", "Q", "R", "S", "T", "U", "V", "W", "X", "Y", "Z">>
LowerAscii == <<"a", "b", "c", "d", "e", "f", "g", "h", "i", "j", "k", "l", "m",
                "n", "o", "p", "q", "r", "s", "t", "u", "v", "w", "x", "y", "z">>
Digits == {"0", "1", "2", "3", "4", "5", "6", "7", "8", "9"}

Range(f) == {f[i] : i \in DOMAIN f}

\* unicode.IsLetter: U+0130 (capital I with dot above) is a letter, class Lu
IsLetter(r) == r \in Range(UpperAscii) \cup Range(LowerAscii) \cup {"U+0130"}

\* unicode.Is(unicode.Mn, r): U+0304 is the combining macron
IsMn(r) == r = "U+0304"

\* unicode.ToLower: U+0130 lowers to the ASCII letter i
ToLowerRune(r) ==
  IF r \in Range(UpperAscii)
  THEN LowerAscii[CHOOSE i \in DOMAIN UpperAscii : UpperAscii[i] = r]
  ELSE IF r = "U+0130" THEN "i"
  ELSE r

----------------------------------------------------------------------------
(* The strings, net/url and html/template functions the program calls *)

RECURSIVE MapRunes(_)
MapRunes(rs) == IF rs = <<>> THEN <<>> ELSE <<ToLowerRune(Head(rs))>> \o MapRunes(Tail(rs))

\* strings.ToLower: maps rune by rune and re-encodes, so the byte length of
\* the result differs from the input's where a rune's lower case is shorter
ToLower(s) == StringOf(MapRunes(Runes(s)))

Occurrences(s, sub) ==
  {i \in 0..(Len(s) - Len(sub)) : SubSeq(s, i + 1, i + Len(sub)) = sub}

\* strings.Index: byte offset of the first occurrence, or -1
Index(s, sub) == IF Occurrences(s, sub) = {} THEN -1 ELSE SetMin(Occurrences(s, sub))

\* strings.LastIndex: byte offset of the last occurrence, or -1
LastIndex(s, sub) == IF Occurrences(s, sub) = {} THEN -1 ELSE SetMax(Occurrences(s, sub))

RECURSIVE TrimLeftRunes(_, _)
TrimLeftRunes(rs, cutset) ==
  IF rs # <<>> /\ Head(rs) \in cutset THEN TrimLeftRunes(Tail(rs), cutset) ELSE rs

RECURSIVE TrimRightRunes(_, _)
TrimRightRunes(rs, cutset) ==
  IF rs # <<>> /\ rs[Len(rs)] \in cutset
  THEN TrimRightRunes(SubSeq(rs, 1, Len(rs) - 1), cutset)
  ELSE rs

\* strings.Trim(s, cutset): drops the leading and trailing runes in cutset
Trim(s, cutset) == StringOf(TrimRightRunes(TrimLeftRunes(Runes(s), cutset), cutset))

\* template.HTMLEscapeString, byte by byte: the five entities, and U+FFFD
\* in place of a NUL byte
HTMLEscapeByte(b) ==
  CASE b = "<" -> <<"&lt;">>
    [] b = ">" -> <<"&gt;">>
    [] b = "&" -> <<"&amp;">>
    [] b = "'" -> <<"&#39;">>
    [] b = "\"" -> <<"&#34;">>
    [] b = "NUL" -> <<"EF", "BF", "BD">>
    [] OTHER -> <<b>>

RECURSIVE HTMLEscapeString(_)
HTMLEscapeString(s) ==
  IF s = <<>> THEN <<>> ELSE HTMLEscapeByte(Head(s)) \o HTMLEscapeString(Tail(s))

Unreserved == Range(UpperAscii) \cup Range(LowerAscii) \cup Digits \cup {"-", "_", ".", "~"}

\* url.QueryEscape, byte by byte
QueryEscapeByte(b) ==
  CASE b \in Unreserved -> b
    [] b = " " -> "+"
    [] b = "'" -> "%27"
    [] b = "\"" -> "%22"
    [] b = "<" -> "%3C"
    [] b = ">" -> "%3E"
    [] b = "[" -> "%5B"
    [] b = "]" -> "%5D"
    [] b = "&" -> "%26"
    [] b = "/" -> "%2F"
    [] b = "NUL" -> "%00"
    [] b = "E2" -> "%E2"
    [] b = "80" -> "%80"
    [] b = "99" -> "%99"
    [] b = "CC" -> "%CC"
    [] b = "84" -> "%84"
    [] b = "C4" -> "%C4"
    [] b = "B0" -> "%B0"
    [] b = "EF" -> "%EF"
    [] b = "BF" -> "%BF"
    [] b = "BD" -> "%BD"

RECURSIVE QueryEscape(_)
QueryEscape(s) ==
  IF s = <<>> THEN <<>> ELSE <<QueryEscapeByte(Head(s))>> \o QueryEscape(Tail(s))

\* Offsets at or after p where open [^close]+ close matches: an open byte
\* whose first following close byte lies at least one byte further on
MatchStarts(s, p, open, close) ==
  {i \in p..(Len(s) - 1) :
     /\ s[i + 1] = open
     /\ \E j \in (i + 2)..(Len(s) - 1) :
          /\ s[j + 1] = close
          /\ \A k \in (i + 1)..(j - 1) : s[k + 1] # close}

\* End offset (exclusive) of the match that starts at offset i
MatchEnd(s, i, close) ==
  SetMin({j \in (i + 2)..(Len(s) - 1) : s[j + 1] = close}) + 1

\* Regexp.FindAllStringIndex(s, -1) for open [^close]+ close: the successive
\* non-overlapping matches, each as <<start, end>>
RECURSIVE FindAllFrom(_, _, _, _)
FindAllFrom(s, p, open, close) ==
  IF MatchStarts(s, p, open, close) = {} THEN <<>>
  ELSE LET i == SetMin(MatchStarts(s, p, open, close))
           e == MatchEnd(s, i, close)
       IN <<<<i, e>>>> \o FindAllFrom(s, e, open, close)

\* tagPattern `<[^>]+>`
tagPattern(s) == FindAllFrom(s, 0, "<", ">")

\* refPattern `\[[^\]]+\]`
refPattern(s) == FindAllFrom(s, 0, "[", "]")

----------------------------------------------------------------------------
(* The content transformer *)

paliAnalysisURL == "https://dpdict.net/"

isPaliChar(r) == IsLetter(r) \/ IsMn(r)

isWordChar(r) == isPaliChar(r) \/ r = "'" \/ r = "U+2019"

\* mutant of containsLetter: the letter test is missing
containsLetterAlways(s) == TRUE

containsLetter(s) == \E i \in DOMAIN Runes(s) : IsLetter(Runes(s)[i])

\* the cutset of strings.Trim(cleanWord, "''\""): the ASCII apostrophe
\* (twice) and the ASCII double quote
TrimCutset == {"'", "\""}

cleanWordOf(word) == Trim(ToLower(word), TrimCutset)

\* What processWords writes for one collected word
EmitWord(word) ==
  LET cleanWord == cleanWordOf(word)
  IN IF Len(cleanWord) > 0 /\ containsLetter(cleanWord)
     THEN <<"<a href=\"", paliAnalysisURL, "?tab=dpd&q=">>
          \o QueryEscape(cleanWord)
          \o <<"\" class=\"pali-word\" target=\"other\">">>
          \o HTMLEscapeString(word)
          \o <<"</a>">>
     ELSE HTMLEscapeString(word)

\* mutant of CollectWord: the word ends after its first rune
CollectWordOneRune(runes, i) == i + 1

\* the inner loop of processWords: the index just past the word that
\* starts at i (indices are 1-based here)
RECURSIVE CollectWord(_, _)
CollectWord(runes, i) ==
  IF i <= Len(runes) /\ isWordChar(runes[i]) THEN CollectWord(runes, i + 1) ELSE i

\* the outer loop of processWords from index i
RECURSIVE WordsLoop(_, _)
WordsLoop(runes, i) ==
  IF i > Len(runes) THEN <<>>
  ELSE IF isWordChar(runes[i])
       THEN LET j == CollectWord(runes, i)
            IN EmitWord(StringOf(SubSeq(runes, i, j - 1))) \o WordsLoop(runes, j)
       ELSE EncodeRune(runes[i]) \o WordsLoop(runes, i + 1)

processWords(text) == WordsLoop(Runes(text), 1)

\* mutant of EmitRef: the reference text goes through processWords
EmitRefTokenized(ref) ==
  <<"<span class=\"reference\">">> \o processWords(ref) \o <<"</span>">>

\* What processTextSegment writes for one reference match
EmitRef(ref) == <<"<span class=\"reference\">">> \o HTMLEscapeString(ref) \o <<"</span>">>

\* the loop of processTextSegment over refMatches[k..], lastEnd as in the code
RECURSIVE RefLoop(_, _, _, _)
RefLoop(text, matches, k, lastEnd) ==
  IF k > Len(matches)
  THEN IF lastEnd < Len(text) THEN processWords(Slice(text, lastEnd, Len(text))) ELSE <<>>
  ELSE LET m == matches[k]
       IN (IF m[1] > lastEnd THEN processWords(Slice(text, lastEnd, m[1])) ELSE <<>>)
          \o EmitRef(Slice(text, m[1], m[2]))
          \o RefLoop(text, matches, k + 1, m[2])

processTextSegment(text) ==
  LET refMatches == refPattern(text)
  IN IF Len(refMatches) = 0 THEN processWords(text)
     ELSE RefLoop(text, refMatches, 1, 0)

\* What one iteration of makeWordsClickable's loop writes for match m
TagStep(text, m, lastEnd) ==
  (IF m[1] > lastEnd THEN processTextSegment(Slice(text, lastEnd, m[1])) ELSE <<>>)
  \o Slice(text, m[1], m[2])

\* mutant of TagTail: the text after the last tag is dropped
TagTailDropped(text, lastEnd) == <<>>

\* What makeWordsClickable writes after the loop
TagTail(text, lastEnd) ==
  IF lastEnd < Len(text) THEN processTextSegment(Slice(text, lastEnd, Len(text))) ELSE <<>>

RECURSIVE TagLoop(_, _, _, _)
TagLoop(text, matches, k, lastEnd) ==
  IF k > Len(matches) THEN TagTail(text, lastEnd)
  ELSE TagStep(text, matches[k], lastEnd) \o TagLoop(text, matches, k + 1, matches[k][2])

makeWordsClickable(text) ==
  LET tagMatches == tagPattern(text)
  IN IF Len(tagMatches) = 0 THEN processTextSegment(text)
     ELSE TagLoop(text, tagMatches, 1, 0)

\* bodyStart of processHTMContent before the slice (lines 226-237)
BodyStart(c) ==
  LET bodyStart == Index(ToLower(c), <<"<", "b", "o", "d", "y">>)
  IN IF bodyStart # -1
     THEN LET bodyTagEnd == Index(Slice(c, bodyStart, Len(c)), <<">">>)
          IN IF bodyTagEnd # -1 THEN bodyStart + bodyTagEnd + 1 ELSE bodyStart
     ELSE 0

\* mutant of BodyEnd: the fallback is one short of len(content)
BodyEndShort(c) ==
  LET bodyEnd == LastIndex(ToLower(c), <<"<", "/", "b", "o", "d", "y", ">">>)
  IN IF bodyEnd = -1 THEN Len(c) - 1 ELSE bodyEnd

\* bodyEnd of processHTMContent before the slice (lines 227, 239-241)
BodyEnd(c) ==
  LET bodyEnd == LastIndex(ToLower(c), <<"<", "/", "b", "o", "d", "y", ">">>)
  IN IF bodyEnd = -1 THEN Len(c) ELSE bodyEnd

\* Go panics on s[lo:hi] unless 0 <= lo <= hi <= len(s); content[bodyStart:]
\* panics when the offset found in the lowered copy lies past len(content)
SlicePanics(c) ==
  \/ BodyStart(c) < 0
  \/ Index(ToLower(c), <<"<", "b", "o", "d", "y">>) > Len(c)
  \/ BodyStart(c) > BodyEnd(c)
  \/ BodyEnd(c) > Len(c)

\* bodyContent := content[bodyStart:bodyEnd]
BodyContentOf(c) == Slice(c, BodyStart(c), BodyEnd(c))

----------------------------------------------------------------------------
(* Input documents *)

\* runes of the markup documents: tag and reference delimiters, a letter,
\* characters HTMLEscapeString rewrites, a blank
MarkupAlphabet == {"<", ">", "[", "]", "a", "&", "NUL", " "}

\* runes of the word documents: letters, both apostrophes, the combining
\* macron, a digit and a punctuation mark
WordAlphabet == {"a", "A", "'", "U+2019", "U+0304", "1", "-"}

\* pieces of the body documents: the body markers in two casings, the tag
\* end, a letter, and U+0130, whose lower case is one byte shorter
BodyChunks ==
  { <<"<", "b", "o", "d", "y">>, <<"<", "B", "O", "D", "Y">>, <<">">>,
    <<"<", "/", "b", "o", "d", "y", ">">>, <<"<", "/", "B", "o", "d", "y", ">">>,
    <<"x">>, <<"C4", "B0">> }

\* the documents the specification's examples name
Examples ==
  { <<"D", "h", "a", "m", "m", "a", " ", "[", "P", "T", "S", " ", "P", "a", "g", "e",
      " ", "0", "0", "1", "]", " ", "i", "s", " ", "t", "a", "u", "g", "h", "t">>,
    <<"B", "u", "d", "d", "h", "o", "'", "s">>,
    <<"'", "B", "u", "d", "d", "h", "o", "'">>,
    <<"1", "2", "3">>,
    <<"-", "-", "-">>,
    <<"<", "b", "o", "d", "y", " ", "i", "d", "=", "\"", "x", "\"", ">",
      "<", "p", ">", "[", "1", "]", " ", "B", "u", "d", "d", "h", "o", "<", "/", "p", ">",
      "t", "i", "<", "/", "b", "o", "d", "y", ">">> }

Documents ==
  {StringOf(rs) : rs \in SeqsUpTo(MarkupAlphabet, MaxMarkupLen)}
  \cup {StringOf(rs) : rs \in SeqsUpTo(WordAlphabet, MaxWordLen)}
  \cup {Flatten(cs) : cs \in SeqsUpTo(BodyChunks, MaxChunks)}
  \cup Examples

----------------------------------------------------------------------------
(* processHTMContent on one document, as two steps *)

Handlers == 1..NumHandlers

TransformerIdle ==
  /\ content = <<>>
  /\ pc = "idle"
  /\ bodyContent = <<>>
  /\ result = <<>>

HandlersIdle ==
  /\ hpc = [h \in Handlers |-> "idle"]
  /\ hcontent = [h \in Handlers |-> <<>>]
  /\ hbody = [h \in Handlers |-> <<>>]
  /\ hmatches = [h \in Handlers |-> <<>>]
  /\ hk = [h \in Handlers |-> 0]
  /\ hlastEnd = [h \in Handlers |-> 0]
  /\ builders = [h \in Handlers |-> <<>>]
  /\ hout = [h \in Handlers |-> <<>>]

ReadIdle ==
  /\ rpc = "idle"
  /\ urlPath = <<>>
  /\ fsOps = {}
  /\ status = 0

Init ==
  /\ content \in Documents
  /\ pc = "start"
  /\ bodyContent = <<>>
  /\ result = <<>>
  /\ HandlersIdle
  /\ ReadIdle

\* lines 226-243: body isolation; the slice expression panics or yields
\* bodyContent
IsolateBody ==
  /\ pc = "start"
  /\ IF SlicePanics(content)
     THEN /\ pc' = "panic"
          /\ UNCHANGED bodyContent
     ELSE /\ pc' = "body"
          /\ bodyContent' = BodyContentOf(content)
  /\ UNCHANGED <<content, result, hvars, rvars>>

\* line 246: return makeWordsClickable(bodyContent)
MakeWordsClickable ==
  /\ pc = "body"
  /\ result' = makeWordsClickable(bodyContent)
  /\ pc' = "done"
  /\ UNCHANGED <<content, bodyContent, hvars, rvars>>

Next == IsolateBody \/ MakeWordsClickable

Spec == Init /\ [][Next]_vars

----------------------------------------------------------------------------
(* Request handlers running processHTMContent concurrently: net/http runs  *)
(* each request's handler in a goroutine of its own.                       *)

\* the documents the handlers read
ServedDocuments ==
  { <<>>,
    <<"a">>,
    <<"<", "p", ">", "a", "<", "/", "p", ">", "b">>,
    <<"<", "b", "o", "d", "y", ">", "[", "a", "]", "<", "i", ">", "A", "'">>,
    <<"<", "/", "b", "o", "d", "y", ">", "<", "b", "o", "d", "y", ">">> }

\* mutant of ResultBuilder: one package-level builder for every call
ResultBuilderShared(h) == 1

\* the strings.Builder makeWordsClickable writes to: `var result` is a local
\* of the call, so each handler has its own
ResultBuilder(h) == h

InitConc ==
  /\ TransformerIdle
  /\ HandlersIdle
  /\ ReadIdle

\* handleRead lines 127-133: the file is read and passed to processHTMContent
HReadFile(h) ==
  /\ hpc[h] = "idle"
  /\ \E doc \in ServedDocuments : hcontent' = [hcontent EXCEPT ![h] = doc]
  /\ hpc' = [hpc EXCEPT ![h] = "start"]
  /\ UNCHANGED <<hbody, hmatches, hk, hlastEnd, builders, hout, tvars, rvars>>

\* processHTMContent lines 226-243; a panic unwinds this handler's goroutine
\* only (net/http recovers it and drops the connection)
HIsolateBody(h) ==
  /\ hpc[h] = "start"
  /\ IF SlicePanics(hcontent[h])
     THEN /\ hpc' = [hpc EXCEPT ![h] = "panic"]
          /\ UNCHANGED hbody
     ELSE /\ hpc' = [hpc EXCEPT ![h] = "body"]
          /\ hbody' = [hbody EXCEPT ![h] = BodyContentOf(hcontent[h])]
  /\ UNCHANGED <<hcontent, hmatches, hk, hlastEnd, builders, hout, tvars, rvars>>

\* makeWordsClickable lines 269-282: a fresh builder, the tag matches, and
\* the return without a loop when there is no tag
HBegin(h) ==
  /\ hpc[h] = "body"
  /\ hmatches' = [hmatches EXCEPT ![h] = tagPattern(hbody[h])]
  /\ hlastEnd' = [hlastEnd EXCEPT ![h] = 0]
  /\ hk' = [hk EXCEPT ![h] = 1]
  /\ builders' = [builders EXCEPT ![ResultBuilder(h)] = <<>>]
  /\ IF Len(tagPattern(hbody[h])) = 0
     THEN /\ hout' = [hout EXCEPT ![h] = processTextSegment(hbody[h])]
          /\ hpc' = [hpc EXCEPT ![h] = "done"]
     ELSE /\ hpc' = [hpc EXCEPT ![h] = "loop"]
          /\ UNCHANGED hout
  /\ UNCHANGED <<hcontent, hbody, tvars, rvars>>

\* makeWordsClickable lines 284-293: one iteration of the loop over the tags
HTagStep(h) ==
  /\ hpc[h] = "loop"
  /\ hk[h] <= Len(hmatches[h])
  /\ builders' = [builders EXCEPT ![ResultBuilder(h)] =
                    @ \o TagStep(hbody[h], hmatches[h][hk[h]], hlastEnd[h])]
  /\ hlastEnd' = [hlastEnd EXCEPT ![h] = hmatches[h][hk[h]][2]]
  /\ hk' = [hk EXCEPT ![h] = @ + 1]
  /\ UNCHANGED <<hpc, hcontent, hbody, hmatches, hout, tvars, rvars>>

\* makeWordsClickable lines 295-300: the text after the last tag, and the
\* return of result.String()
HFinish(h) ==
  /\ hpc[h] = "loop"
  /\ hk[h] > Len(hmatches[h])
  /\ builders' = [builders EXCEPT ![ResultBuilder(h)] = @ \o TagTail(hbody[h], hlastEnd[h])]
  /\ hout' = [hout EXCEPT ![h] = builders'[ResultBuilder(h)]]
  /\ hpc' = [hpc EXCEPT ![h] = "done"]
  /\ UNCHANGED <<hcontent, hbody, hmatches, hk, hlastEnd, tvars, rvars>>

\* handleRead lines 134-149: the page is rendered and the handler returns;
\* the goroutine serves the connection's next request
HRespond(h) ==
  /\ hpc[h] \in {"done", "panic"}
  /\ hpc' = [hpc EXCEPT ![h] = "idle"]
  /\ hcontent' = [hcontent EXCEPT ![h] = <<>>]
  /\ hbody' = [hbody EXCEPT ![h] = <<>>]
  /\ hmatches' = [hmatches EXCEPT ![h] = <<>>]
  /\ hk' = [hk EXCEPT ![h] = 0]
  /\ hlastEnd' = [hlastEnd EXCEPT ![h] = 0]
  /\ hout' = [hout EXCEPT ![h] = <<>>]
  /\ UNCHANGED <<builders, tvars, rvars>>

NextConc ==
  \E h \in Handlers :
     \/ HReadFile(h)
     \/ HIsolateBody(h)
     \/ HBegin(h)
     \/ HTagStep(h)
     \/ HFinish(h)
     \/ HRespond(h)

SpecConc == InitConc /\ [][NextConc]_vars

\* C9: under every interleaving of concurrent handlers, each invocation
\* ends as a sequential invocation on the same document ends: with the same
\* output, or with the same panic.
C9_ConcurrentEqualsSequential ==
  \A h \in Handlers :
     /\ hpc[h] = "done" =>
          /\ ~SlicePanics(hcontent[h])
          /\ hout[h] = makeWordsClickable(BodyContentOf(hcontent[h]))
     /\ hpc[h] = "panic" => SlicePanics(hcontent[h])

\* two handlers are inside makeWordsClickable's loop at once, on different
\* documents, each with output written, and a third state: one has returned
\* while the other is still in the loop
C9_Witness ==
  \E h1, h2 \in Handlers :
     /\ h1 # h2
     /\ hpc[h1] = "done"
     /\ hout[h1] # <<>>
     /\ hpc[h2] = "loop"
     /\ hk[h2] > 1
     /\ hcontent[h1] # hcontent[h2]
     /\ Len(hmatches[h1]) > 0

----------------------------------------------------------------------------
(* handleRead: the path check and the file-system accesses behind it.      *)
(* A path is a string of characters here, so that strings.HasPrefix is     *)
(* the comparison of characters it is in the program.                      *)

baseDir == <<"2", "_", "p", "a", "l", "i">>

\* the working directory of the server (WORKDIR /app of the Dockerfile)
WorkDir == <<"/", "a", "p", "p">>

ReadPrefix == <<"/", "r", "e", "a", "d", "/">>

\* path elements of the requests: the parent and current directory, an
\* empty element, an entry of the base directory, the base directory's own
\* name, and a sibling directory whose name starts with the base's name
RequestElements ==
  { <<".", ".">>, <<".">>, <<>>, <<"s">>, baseDir, baseDir \o <<"_", "x">> }

RECURSIVE JoinWith(_, _)
JoinWith(elems, sep) ==
  IF elems = <<>> THEN <<>>
  ELSE IF Len(elems) = 1 THEN Head(elems)
  ELSE Head(elems) \o sep \o JoinWith(Tail(elems), sep)

\* strings.Split(path, "/")
RECURSIVE SplitPath(_, _)
SplitPath(path, cur) ==
  IF path = <<>> THEN <<cur>>
  ELSE IF Head(path) = "/" THEN <<cur>> \o SplitPath(Tail(path), <<>>)
  ELSE SplitPath(Tail(path), Append(cur, Head(path)))

\* filepath.Clean's pass over the elements: empty and "." elements go, ".."
\* removes the element before it, is dropped at the root, and is kept at the
\* start of a relative path
RECURSIVE CleanElements(_, _, _)
CleanElements(elems, kept, rooted) ==
  IF elems = <<>> THEN kept
  ELSE LET e == Head(elems)
       IN IF e = <<>> \/ e = <<".">> THEN CleanElements(Tail(elems), kept, rooted)
          ELSE IF e = <<".", ".">>
               THEN IF kept # <<>> /\ kept[Len(kept)] # <<".", ".">>
                    THEN CleanElements(Tail(elems), SubSeq(kept, 1, Len(kept) - 1), rooted)
                    ELSE IF rooted THEN CleanElements(Tail(elems), kept, rooted)
                    ELSE CleanElements(Tail(elems), Append(kept, e), rooted)
          ELSE CleanElements(Tail(elems), Append(kept, e), rooted)

\* filepath.Clean
Clean(path) ==
  LET rooted == path # <<>> /\ Head(path) = "/"
      body == JoinWith(CleanElements(SplitPath(path, <<>>), <<>>, rooted), <<"/">>)
  IN IF rooted THEN <<"/">> \o body
     ELSE IF body = <<>> THEN <<".">>
     ELSE body

\* filepath.Join(a, b) for non-empty a and b
Join(a, b) == Clean(a \o <<"/">> \o b)

\* filepath.Abs: a relative path is joined onto the working directory
Abs(path) == IF path # <<>> /\ Head(path) = "/" THEN Clean(path) ELSE Join(WorkDir, path)

\* strings.TrimPrefix
TrimPrefix(s, prefix) == IF IsPrefix(prefix, s) THEN SubSeq(s, Len(prefix) + 1, Len(s)) ELSE s

\* strings.HasPrefix
HasPrefix(s, prefix) == IsPrefix(prefix, s)

filePathOf(url) == TrimPrefix(url, ReadPrefix)
fullPathOf(url) == Join(baseDir, filePathOf(url))

\* the security check of lines 94-96
PassesSecurityCheck(url) == HasPrefix(Abs(fullPathOf(url)), Abs(baseDir))

RequestPaths ==
  {ReadPrefix \o JoinWith(elems, <<"/">>) : elems \in SeqsUpTo(RequestElements, MaxSegments)}

InitRead ==
  /\ TransformerIdle
  /\ HandlersIdle
  /\ rpc = "start"
  /\ urlPath \in RequestPaths
  /\ fsOps = {}
  /\ status = 0

\* lines 85-99: the empty path is redirected, a path that fails the check
\* is answered 400
RCheckPath ==
  /\ rpc = "start"
  /\ IF filePathOf(urlPath) = <<>>
     THEN status' = 302 /\ rpc' = "responded"
     ELSE IF ~PassesSecurityCheck(urlPath)
          THEN status' = 400 /\ rpc' = "responded"
          ELSE status' = 0 /\ rpc' = "stat"
  /\ UNCHANGED <<urlPath, fsOps, tvars, hvars>>

\* lines 101-105: os.Stat(fullPath); what is there is the file system's choice
RStat ==
  /\ rpc = "stat"
  /\ fsOps' = fsOps \cup {[op |-> "stat", path |-> Abs(fullPathOf(urlPath))]}
  /\ \E found \in {"missing", "dir", "file"} :
       CASE found = "missing" -> status' = 404 /\ rpc' = "responded"
         [] found = "dir" -> status' = 0 /\ rpc' = "listing"
         [] found = "file" -> status' = 0 /\ rpc' = "reading"
  /\ UNCHANGED <<urlPath, tvars, hvars>>

\* lines 107-124: the directory listing (buildFileTree's os.ReadDir)
RListDirectory ==
  /\ rpc = "listing"
  /\ fsOps' = fsOps \cup {[op |-> "readdir", path |-> Abs(fullPathOf(urlPath))]}
  /\ status' = 200
  /\ rpc' = "responded"
  /\ UNCHANGED <<urlPath, tvars, hvars>>

\* lines 127-149: os.ReadFile(fullPath), then the page, or 500
RReadFile ==
  /\ rpc = "reading"
  /\ fsOps' = fsOps \cup {[op |-> "readfile", path |-> Abs(fullPathOf(urlPath))]}
  /\ \E readable \in BOOLEAN : status' = IF readable THEN 200 ELSE 500
  /\ rpc' = "responded"
  /\ UNCHANGED <<urlPath, tvars, hvars>>

NextRead == RCheckPath \/ RStat \/ RListDirectory \/ RReadFile

SpecRead == InitRead /\ [][NextRead]_vars

\* the location is the base directory or lies inside it
InsideBase(abs) == abs = Abs(baseDir) \/ IsPrefix(Abs(baseDir) \o <<"/">>, abs)

\* C10: a request whose path resolves to a location that is neither the
\* base directory nor inside it is answered 400, and no stat, directory
\* listing or file read touches that location.
C10_OutsideBaseIsRejected ==
  (rpc # "start" /\ filePathOf(urlPath) # <<>> /\ ~InsideBase(Abs(fullPathOf(urlPath)))) =>
     /\ fsOps = {}
     /\ rpc = "responded" => status = 400

----------------------------------------------------------------------------
(* Body isolation: claims C1, C2, C3 *)

OpenMarker == <<"<", "b", "o", "d", "y">>
CloseMarker == <<"<", "/", "b", "o", "d", "y", ">">>

\* offsets of the document at which marker occurs, letter case ignored
FoldOccurs(c, marker) ==
  {i \in 0..(Len(c) - Len(marker)) : ToLower(SubSeq(c, i + 1, i + Len(marker))) = marker}

HasBodyMarker(c) == FoldOccurs(c, OpenMarker) # {} \/ FoldOccurs(c, CloseMarker) # {}

\* offsets of the `>` bytes at or after the first opening marker
TagCloses(c) ==
  {j \in SetMin(FoldOccurs(c, OpenMarker))..(Len(c) - 1) : c[j + 1] = ">"}

\* the claim's s is defined: no opening marker, or one whose tag is closed
RegionStartDefined(c) == FoldOccurs(c, OpenMarker) = {} \/ TagCloses(c) # {}

RegionStart(c) == IF FoldOccurs(c, OpenMarker) = {} THEN 0 ELSE SetMin(TagCloses(c)) + 1

RegionEnd(c) ==
  IF FoldOccurs(c, CloseMarker) = {} THEN Len(c) ELSE SetMax(FoldOccurs(c, CloseMarker))

Isolated == pc \in {"body", "done"}

\* C1: processHTMContent never panics, whatever the document.
C1_NeverPanics == pc # "panic"

\* C2: body isolation selects exactly the substring [s, e) of the document,
\* s just after the `>` of the tag at the first opening marker (0 without
\* one), e the offset of the last closing marker (the length without one).
C2_RegionIsFirstOpenToLastClose ==
  (pc # "start" /\ RegionStartDefined(content)) =>
     /\ pc # "panic"
     /\ RegionStart(content) <= RegionEnd(content)
     /\ bodyContent = Slice(content, RegionStart(content), RegionEnd(content))

\* C3 as stated: the isolated region holds no body marker, and isolating it
\* again returns it unchanged.
C3_RegionHasNoMarkerAndIsFixed ==
  Isolated =>
     /\ ~HasBodyMarker(bodyContent)
     /\ ~SlicePanics(bodyContent)
     /\ BodyContentOf(bodyContent) = bodyContent

\* C3 amended: an isolated region that holds no body marker is returned
\* unchanged when body isolation runs on it again.
C3_MarkerFreeRegionIsFixed ==
  (Isolated /\ ~HasBodyMarker(bodyContent)) =>
     /\ ~SlicePanics(bodyContent)
     /\ BodyContentOf(bodyContent) = bodyContent

\* a document with both markers whose region is a proper, non-empty,
\* marker-free part of it
C3_Witness ==
  /\ pc = "body"
  /\ FoldOccurs(content, OpenMarker) # {}
  /\ FoldOccurs(content, CloseMarker) # {}
  /\ bodyContent # <<>>
  /\ ~HasBodyMarker(bodyContent)
  /\ BodyContentOf(bodyContent) = bodyContent

----------------------------------------------------------------------------
(* The spans of a working region: claim C4 *)

Span(kind, start, end) == [kind |-> kind, start |-> start, end |-> end]

Covered(spans) == UNION {sp.start..(sp.end - 1) : sp \in spans}

\* the maximal intervals of 0..n-1 that no span of spans covers
Gaps(n, spans) ==
  LET free == (0..(n - 1)) \ Covered(spans)
  IN {Span("gap", p[1], p[2] + 1) :
        p \in {q \in free \X free :
                 /\ q[1] <= q[2]
                 /\ (q[1] - 1) \notin free
                 /\ (q[2] + 1) \notin free
                 /\ \A k \in q[1]..q[2] : k \in free}}

MarkupSpans(t) == {Span("markup", m[1], m[2]) : m \in Range(tagPattern(t))}

\* the bracketed references of each plain-text stretch between the tags
ReferenceSpans(t) ==
  UNION {{Span("reference", g.start + m[1], g.start + m[2]) :
            m \in Range(refPattern(Slice(t, g.start, g.end)))} :
         g \in Gaps(Len(t), MarkupSpans(t))}

\* the runes of s with their byte offsets, the first rune at offset off
RECURSIVE RuneSpansFrom(_, _)
RuneSpansFrom(s, off) ==
  IF s = <<>> THEN <<>>
  ELSE LET d == DecodeRune(s)
       IN <<[r |-> d.r, start |-> off, end |-> off + d.w]>>
          \o RuneSpansFrom(SubSeq(s, d.w + 1, Len(s)), off + d.w)

\* the maximal word-character runs of the stretch g, and its other runes
WordSpansIn(t, g) ==
  LET rs == RuneSpansFrom(Slice(t, g.start, g.end), g.start)
      W(i) == isWordChar(rs[i].r)
  IN {Span("word", rs[p[1]].start, rs[p[2]].end) :
        p \in {q \in (DOMAIN rs) \X (DOMAIN rs) :
                 /\ q[1] <= q[2]
                 /\ \A k \in q[1]..q[2] : W(k)
                 /\ (q[1] = 1 \/ ~W(q[1] - 1))
                 /\ (q[2] = Len(rs) \/ ~W(q[2] + 1))}}

OtherSpansIn(t, g) ==
  LET rs == RuneSpansFrom(Slice(t, g.start, g.end), g.start)
  IN {Span("other", rs[i].start, rs[i].end) : i \in {x \in DOMAIN rs : ~isWordChar(rs[x].r)}}

TextGaps(t) == Gaps(Len(t), MarkupSpans(t) \cup ReferenceSpans(t))

Spans(t) ==
  MarkupSpans(t) \cup ReferenceSpans(t)
  \cup UNION {WordSpansIn(t, g) \cup OtherSpansIn(t, g) : g \in TextGaps(t)}

RECURSIVE InOrder(_)
InOrder(spans) ==
  IF spans = {} THEN <<>>
  ELSE LET first == CHOOSE sp \in spans : \A other \in spans : sp.start <= other.start
       IN <<first>> \o InOrder(spans \ {first})

\* the spans tile 0..n-1: each is non-empty, and each starts where the one
\* before it ends
Tiles(ordered, n) ==
  /\ \A i \in DOMAIN ordered : ordered[i].start < ordered[i].end
  /\ \A i \in DOMAIN ordered :
       ordered[i].start = IF i = 1 THEN 0 ELSE ordered[i - 1].end
  /\ IF ordered = <<>> THEN n = 0 ELSE ordered[Len(ordered)].end = n

\* what the program is to write for one span
Emission(t, sp) ==
  LET text == Slice(t, sp.start, sp.end)
  IN CASE sp.kind = "markup" -> text
       [] sp.kind = "reference" -> EmitRef(text)
       [] sp.kind = "word" -> EmitWord(text)
       [] sp.kind = "other" -> StringOf(Runes(text))

RECURSIVE Emissions(_, _)
Emissions(t, ordered) ==
  IF ordered = <<>> THEN <<>>
  ELSE Emission(t, Head(ordered)) \o Emissions(t, Tail(ordered))

WrapperChunks == {"</a>", "<span class=\"reference\">", "</span>"}

Unescaped(chunk) ==
  CASE chunk = "&lt;" -> "<"
    [] chunk = "&gt;" -> ">"
    [] chunk = "&amp;" -> "&"
    [] chunk = "&#39;" -> "'"
    [] chunk = "&#34;" -> "\""
    [] OTHER -> chunk

\* the output with the added wrappers removed (an anchor's opening tag runs
\* from its first chunk to the chunk that closes it) and the entities undone
RECURSIVE Unwrapped(_, _)
Unwrapped(out, inAnchorTag) ==
  IF out = <<>> THEN <<>>
  ELSE IF inAnchorTag
       THEN Unwrapped(Tail(out), Head(out) # "\" class=\"pali-word\" target=\"other\">")
  ELSE IF Head(out) = "<a href=\"" THEN Unwrapped(Tail(out), TRUE)
  ELSE IF Head(out) \in WrapperChunks THEN Unwrapped(Tail(out), FALSE)
  ELSE <<Unescaped(Head(out))>> \o Unwrapped(Tail(out), FALSE)

RECURSIVE NulReplaced(_)
NulReplaced(s) ==
  IF s = <<>> THEN <<>>
  ELSE (IF Head(s) = "NUL" THEN <<"EF", "BF", "BD">> ELSE <<Head(s)>>) \o NulReplaced(Tail(s))

\* the text of a span as the amended claim has it come back
ComesBack(t, sp) ==
  LET text == Slice(t, sp.start, sp.end)
  IN CASE sp.kind = "reference" -> NulReplaced(text)
       [] sp.kind = "other" -> StringOf(Runes(text))
       [] OTHER -> text

RECURSIVE ComeBack(_, _)
ComeBack(t, ordered) ==
  IF ordered = <<>> THEN <<>> ELSE ComesBack(t, Head(ordered)) \o ComeBack(t, Tail(ordered))

SpansTileAndEmit ==
  LET ordered == InOrder(Spans(bodyContent))
  IN /\ Tiles(ordered, Len(bodyContent))
     /\ result = Emissions(bodyContent, ordered)

\* C4 as stated: the markup, reference and word/other spans tile the region
\* in order, the output is their emissions in that order (a markup span
\* verbatim), and the output with the wrappers removed and the escaping
\* undone is the region itself.
C4_SpansTileAndRegionComesBack ==
  pc = "done" => (SpansTileAndEmit /\ Unwrapped(result, FALSE) = bodyContent)

\* C4 amended: as stated, except that a NUL inside a reference span and a
\* byte outside the markup and reference spans that is no valid UTF-8 come
\* back as U+FFFD.
C4_SpansTileAndRegionComesBackButNul ==
  pc = "done" =>
     /\ SpansTileAndEmit
     /\ Unwrapped(result, FALSE) = ComeBack(bodyContent, InOrder(Spans(bodyContent)))

\* a region with a markup span, a reference span and a word after the last
\* tag has been transformed
C4_Witness ==
  /\ pc = "done"
  /\ \E m \in MarkupSpans(bodyContent), r \in ReferenceSpans(bodyContent),
        w \in Spans(bodyContent) :
       w.kind = "word" /\ m.end <= r.start /\ r.end <= w.start
  /\ \E m \in MarkupSpans(bodyContent), w \in Spans(bodyContent) :
       w.kind = "word" /\ w.end = Len(bodyContent) /\ m.end <= w.start
           /\ \A m2 \in MarkupSpans(bodyContent) : m2.end <= w.start

----------------------------------------------------------------------------
(* Reading the output back: anchors and reference wrappers *)

AnchorOpen == "<a href=\""
AnchorQuery == "?tab=dpd&q="
AnchorClass == "\" class=\"pali-word\" target=\"other\">"
AnchorClose == "</a>"
RefOpen == "<span class=\"reference\">"
RefClose == "</span>"

\* the chunks of out from its first chunk up to, not including, stop
RECURSIVE UpTo(_, _)
UpTo(out, stop) ==
  IF out = <<>> \/ Head(out) = stop THEN <<>> ELSE <<Head(out)>> \o UpTo(Tail(out), stop)

\* the visible text of each anchor of out, in order
RECURSIVE AnchorTexts(_)
AnchorTexts(out) ==
  IF out = <<>> THEN <<>>
  ELSE IF Head(out) = AnchorClass
       THEN <<UpTo(Tail(out), AnchorClose)>> \o AnchorTexts(Tail(out))
       ELSE AnchorTexts(Tail(out))

\* the q parameter of each anchor of out, in order
RECURSIVE AnchorKeys(_)
AnchorKeys(out) ==
  IF out = <<>> THEN <<>>
  ELSE IF Head(out) = AnchorQuery
       THEN <<UpTo(Tail(out), AnchorClass)>> \o AnchorKeys(Tail(out))
       ELSE AnchorKeys(Tail(out))

\* the content of each reference wrapper of out, in order
RECURSIVE RefContents(_)
RefContents(out) ==
  IF out = <<>> THEN <<>>
  ELSE IF Head(out) = RefOpen
       THEN <<UpTo(Tail(out), RefClose)>> \o RefContents(Tail(out))
       ELSE RefContents(Tail(out))

\* out with the href of every anchor removed
RECURSIVE HrefRemoved(_, _)
HrefRemoved(out, inHref) ==
  IF out = <<>> THEN <<>>
  ELSE IF Head(out) = AnchorOpen THEN <<AnchorOpen>> \o HrefRemoved(Tail(out), TRUE)
  ELSE IF Head(out) = AnchorClass THEN <<AnchorClass>> \o HrefRemoved(Tail(out), FALSE)
  ELSE IF inHref THEN HrefRemoved(Tail(out), TRUE)
  ELSE <<Head(out)>> \o HrefRemoved(Tail(out), FALSE)

\* the parts of out outside the reference wrappers: before the first,
\* between two, after the last
RECURSIVE OutsideRefs(_, _, _)
OutsideRefs(out, cur, inRef) ==
  IF out = <<>> THEN <<cur>>
  ELSE IF Head(out) = RefOpen THEN <<cur>> \o OutsideRefs(Tail(out), <<>>, TRUE)
  ELSE IF Head(out) = RefClose THEN OutsideRefs(Tail(out), <<>>, FALSE)
  ELSE IF inRef THEN OutsideRefs(Tail(out), cur, TRUE)
  ELSE OutsideRefs(Tail(out), Append(cur, Head(out)), FALSE)

WordSpansOf(t) == {sp \in Spans(t) : sp.kind = "word"}

----------------------------------------------------------------------------
(* Plain text: claim C5 *)

NoTagOrBracket(c) == \A i \in DOMAIN c : c[i] \notin {"<", "["}

\* the input with each word span of linked wrapped in an anchor (its href
\* left out) around its escaped text, each other word span escaped, and
\* every other rune copied
RECURSIVE PlainExpected(_, _, _)
PlainExpected(t, ordered, linked) ==
  IF ordered = <<>> THEN <<>>
  ELSE LET sp == Head(ordered)
           text == Slice(t, sp.start, sp.end)
       IN (CASE sp.kind = "word" /\ sp \in linked ->
                  <<AnchorOpen, AnchorClass>> \o HTMLEscapeString(text) \o <<AnchorClose>>
             [] sp.kind = "word" /\ sp \notin linked -> HTMLEscapeString(text)
             [] OTHER -> text)
          \o PlainExpected(t, Tail(ordered), linked)

\* C5: for an input with no `<` and no `[`, the output is the input with
\* each maximal run of word characters replaced by its escaped text or by
\* one link around that escaped text, every other character copied in
\* place.
C5_PlainTextKeepsEveryCharacter ==
  (pc = "done" /\ NoTagOrBracket(content)) =>
     \E linked \in SUBSET WordSpansOf(content) :
        HrefRemoved(result, FALSE) = PlainExpected(content, InOrder(Spans(content)), linked)

\* a plain input with a linked run of two or more runes, an unlinked run
\* and a character that is no word character
C5_Witness ==
  /\ pc = "done"
  /\ NoTagOrBracket(content)
  /\ \E w \in WordSpansOf(content) : w.end - w.start >= 2 /\ containsLetter(Slice(content, w.start, w.end))
  /\ \E w \in WordSpansOf(content) : ~containsLetter(Slice(content, w.start, w.end))
  /\ \E sp \in Spans(content) : sp.kind = "other"
  /\ Len(AnchorTexts(result)) >= 1

----------------------------------------------------------------------------
(* Link eligibility and the lookup key: claims C6, C7 *)

\* the quote characters of the claims: straight and curly, single and double
\* (of these a token can hold only the ASCII apostrophe and U+2019)
QuoteRunes == {"'", "\"", "U+2019"}

\* the normalized key as the claims define it
NormalizedKey(word) == Trim(ToLower(word), QuoteRunes)

HasLetter(s) == \E i \in DOMAIN Runes(s) : IsLetter(Runes(s)[i])

Eligible(word) == Len(NormalizedKey(word)) > 0 /\ HasLetter(NormalizedKey(word))

\* the word spans among ordered whose token is eligible, as texts
RECURSIVE EligibleWords(_, _)
EligibleWords(t, ordered) ==
  IF ordered = <<>> THEN <<>>
  ELSE LET sp == Head(ordered)
           text == Slice(t, sp.start, sp.end)
       IN (IF sp.kind = "word" /\ Eligible(text) THEN <<text>> ELSE <<>>)
          \o EligibleWords(t, Tail(ordered))

RECURSIVE EscapedEach(_)
EscapedEach(words) ==
  IF words = <<>> THEN <<>> ELSE <<HTMLEscapeString(Head(words))>> \o EscapedEach(Tail(words))

\* C6: a token is wrapped in a link if and only if its normalized key is
\* non-empty and holds a letter; runs of quotes or marks, digits and
\* punctuation get no link.
C6_LinkedIffKeyHasLetter ==
  pc = "done" =>
     AnchorTexts(result) = EscapedEach(EligibleWords(bodyContent, InOrder(Spans(bodyContent))))

\* a region with a linked token and a token of quotes or marks whose key is
\* not empty, left unlinked
C6_Witness ==
  /\ pc = "done"
  /\ Len(AnchorTexts(result)) >= 1
  /\ \E w \in WordSpansOf(bodyContent) :
       LET text == Slice(bodyContent, w.start, w.end)
       IN ~Eligible(text) /\ Len(cleanWordOf(text)) > 0

RECURSIVE KeysOfEach(_)
KeysOfEach(words) ==
  IF words = <<>> THEN <<>>
  ELSE <<QueryEscape(NormalizedKey(Head(words)))>> \o KeysOfEach(Tail(words))

\* C7: the q parameter of every link is the token lowercased with its
\* leading and trailing quote characters (ASCII apostrophe, U+2019)
\* removed, percent-encoded; the visible text is the escaped token itself.
C7_KeyIsLoweredAndQuoteTrimmed ==
  pc = "done" =>
     LET words == EligibleWords(bodyContent, InOrder(Spans(bodyContent)))
     IN /\ AnchorKeys(result) = KeysOfEach(words)
        /\ AnchorTexts(result) = EscapedEach(words)

----------------------------------------------------------------------------
(* References: claim C8 *)

DhammaExample ==
  <<"D", "h", "a", "m", "m", "a", " ", "[", "P", "T", "S", " ", "P", "a", "g", "e",
    " ", "0", "0", "1", "]", " ", "i", "s", " ", "t", "a", "u", "g", "h", "t">>

\* the escaped text of every reference span among ordered
RECURSIVE ReferenceTexts(_, _)
ReferenceTexts(t, ordered) ==
  IF ordered = <<>> THEN <<>>
  ELSE LET sp == Head(ordered)
       IN (IF sp.kind = "reference"
           THEN <<HTMLEscapeString(Slice(t, sp.start, sp.end))>> ELSE <<>>)
          \o ReferenceTexts(t, Tail(ordered))

\* the linked words before the first reference span, between two, and after
\* the last: the words the code finds linkable, none of them inside a
\* reference span
RECURSIVE LinkedOutside(_, _, _)
LinkedOutside(t, ordered, cur) ==
  IF ordered = <<>> THEN <<cur>>
  ELSE LET sp == Head(ordered)
           text == Slice(t, sp.start, sp.end)
       IN IF sp.kind = "reference" THEN <<cur>> \o LinkedOutside(t, Tail(ordered), <<>>)
          ELSE IF sp.kind = "word" /\ HasLetter(text)
               THEN LinkedOutside(t, Tail(ordered), Append(cur, HTMLEscapeString(text)))
          ELSE LinkedOutside(t, Tail(ordered), cur)

RECURSIVE AnchorTextsOfEach(_)
AnchorTextsOfEach(parts) ==
  IF parts = <<>> THEN <<>> ELSE <<AnchorTexts(Head(parts))>> \o AnchorTextsOfEach(Tail(parts))

====
